---------------------------- MODULE Spec2Model ----------------------------
(***************************************************************************)
(* FingerReader: the packet codec (_send_data / _read_data), the command   *)
(* functions (_scan, _buffer_image, _search_template, count_fingers,       *)
(* _create_template, _store_template, _delete_template, erase_fingers)     *)
(* and the workflows (read,                                                *)
(* check_finger, register, _store_finger) of src/FingerReader/__init__.py, *)
(* with the process-wide state holder of src/FingerReader/global_manager.py*)
(***************************************************************************)
EXTENDS Integers, Sequences, FiniteSets, TLC

(***************************************************************************)
(* Protocol constants (src/FingerReader/enums.py), as int(value, 16).      *)
(***************************************************************************)
COMMAND == 1
ACK == 7
START_BIT == 61185
SCAN == 1
SUCCESS == 0
BUFFER_IMAGE == 2
SEARCH_TEMPLATE == 4
COUNT_TEMPLATES == 29
CREATE_TEMPLATE == 5
STORE_TEMPLATE == 6
NO_FINGER_FOUND == 2
READIMAGE == 3
MESSY_IMAGE == 6
FEW_FEATURE_POINTS == 7
INVALID_IMAGE == 21
NO_TEMPLATE_FOUND == 9
COMMUNICATION == 1
CHARACTERISTICS_MISMATCH == 10
INVALID_POSITION == 11
FLASH == 24
\* Error.DELETE_TEMPLATE (PayloadData has a member of the same name)
ERROR_DELETE_TEMPLATE == 16
READ == 1
WRITE == 2
FREE == "free"
BUSY == "busy"
\* _search_template: start_pos = 0x0000, total_templates = 0x00A3
SearchStartPos == 0
SearchTotalTemplates == 163
\* the default device address 0xFFFFFFFF of FingerReader.__init__; an address
\* is held as its two 16-bit halves <<address >> 16, address & 0xFFFF>>
DefaultAddress == <<65535, 65535>>
\* _read_data examines the frame once 12 bytes have been read
HeaderBytes == 12

(***************************************************************************)
(* Values of the model that are not protocol numbers.                      *)
(***************************************************************************)
\* Python None (position=None, timeout=None, the unset attribute)
None == -1
\* the empty bytes object b'' that Serial.read() returns on a timeout
NoData == -1
\* the value of an expression that raised TypeError
TypeErr == -2

(***************************************************************************)
(* Bounds of the model.                                                    *)
(***************************************************************************)
\* wall clock ticks the model lets pass
MaxTicks == 2
\* largest timeout argument (seconds) a caller passes
MaxTimeout == 1
\* Scan exchanges answered "no finger" that one call lets the loop repeat
MaxPolls == 1
\* largest explicit position argument of register()
MaxPos == 1
\* largest payload length of the codec inputs
MaxLen == 2
\* clock ticks per second: time() is finer than the int() the code keeps
TicksPerSecond == 2

(***************************************************************************)
(* Bit helpers.                                                            *)
(***************************************************************************)
\* _shift_right: x >> y & 0xFF
ShiftRight(x, y) == (x \div (2 ^ y)) % 256

\* _shift_left: x << y
ShiftLeft(x, y) == x * (2 ^ y)

RECURSIVE SumSeq(_)
SumSeq(s) == IF s = <<>> THEN 0 ELSE Head(s) + SumSeq(Tail(s))

\* `_shift_left(hi, 8) or _shift_left(lo, 0)`: Python's `or` yields its left
\* operand when that is truthy and evaluates the right one only otherwise;
\* shifting b'' raises TypeError.
ShiftOr(hi, lo) ==
  IF hi = NoData THEN TypeErr
  ELSE IF ShiftLeft(hi, 8) # 0 THEN ShiftLeft(hi, 8)
  ELSE IF lo = NoData THEN TypeErr
  ELSE ShiftLeft(lo, 0)

(***************************************************************************)
(* Packet codec: the encoder.                                              *)
(***************************************************************************)
\* the running sum of _send_data, a native integer (no masking)
SendChecksum(data_type, payload) ==
  data_type + ShiftRight(Len(payload) + 2, 8) + ShiftRight(Len(payload) + 2, 0)
    + SumSeq(payload)

\* the bytes _send_data writes, in order
SendData(address, data_type, payload) ==
  LET packet_length == Len(payload) + 2
      packet_checksum == SendChecksum(data_type, payload)
  IN  << ShiftRight(START_BIT, 8), ShiftRight(START_BIT, 0),
         ShiftRight(address[1], 8), ShiftRight(address[1], 0),
         ShiftRight(address[2], 8), ShiftRight(address[2], 0),
         data_type,
         ShiftRight(packet_length, 8), ShiftRight(packet_length, 0) >>
      \o payload
      \o << ShiftRight(packet_checksum, 8), ShiftRight(packet_checksum, 0) >>

(***************************************************************************)
(* Packet codec: the decoder, one serial read at a time.                   *)
(***************************************************************************)
\* the locals of _read_data before its loop
ReaderInit ==
  [received_data |-> <<>>, counter |-> 0, state |-> "reading", exc |-> "none",
   data_type |-> 0, payload |-> <<>>]

Raised(rd, c, e) ==
  [received_data |-> rd, counter |-> c, state |-> "raised", exc |-> e,
   data_type |-> 0, payload |-> <<>>]

\* a header check that takes a read that timed out for a match
BadHeader_SkipsNoData(received_data) ==
  \/ received_data[1] \notin {NoData, ShiftRight(START_BIT, 8)}
  \/ received_data[2] \notin {NoData, ShiftRight(START_BIT, 0)}

\* a header check that looks at the first byte only
BadHeader_FirstOnly(received_data) ==
  received_data[1] # ShiftRight(START_BIT, 8)

\* _check_packet_header: TRUE when it raises InvalidPacket
BadHeader(received_data) ==
  \/ received_data[1] # ShiftRight(START_BIT, 8)
  \/ received_data[2] # ShiftRight(START_BIT, 0)

\* the body of `if _counter >= 12:` (Python index i is index i + 1 here)
Examine(rd, c) ==
  IF BadHeader(rd) THEN Raised(rd, c, "InvalidPacket")
  ELSE
    LET packet_payload_length == ShiftOr(rd[8], rd[9]) IN
    IF packet_payload_length = TypeErr THEN Raised(rd, c, "TypeError")
    ELSE IF c < packet_payload_length + 9
      THEN [received_data |-> rd, counter |-> c, state |-> "reading",
            exc |-> "none", data_type |-> 0, payload |-> <<>>]
    ELSE
      LET data_type == rd[7]
          payload == [i \in 1..(IF packet_payload_length > 2
                                  THEN packet_payload_length - 2 ELSE 0)
                        |-> rd[9 + i]]
          sumFails == \/ data_type = NoData
                      \/ rd[9] = NoData
                      \/ \E i \in DOMAIN payload : payload[i] = NoData
          packet_checksum == data_type + rd[8] + rd[9] + SumSeq(payload)
          received_checksum == ShiftOr(rd[c - 1], rd[c])
      IN  IF sumFails \/ received_checksum = TypeErr
            THEN Raised(rd, c, "TypeError")
          ELSE IF received_checksum # packet_checksum
            THEN Raised(rd, c, "CorruptedPacket")
          ELSE [received_data |-> rd, counter |-> c, state |-> "returned",
                exc |-> "none", data_type |-> data_type, payload |-> payload]

\* one iteration of the `while True` of _read_data; fragment is the byte that
\* Serial.read() returned, or NoData
ReadStep(st, fragment) ==
  LET rd == Append(st.received_data, fragment)
      c == st.counter + 1
  IN  IF c >= HeaderBytes THEN Examine(rd, c)
      ELSE [st EXCEPT !.received_data = rd, !.counter = c]

\* the byte the transport hands to the next read of a stream
NextFragment(st, stream) ==
  IF st.counter < Len(stream) THEN stream[st.counter + 1] ELSE NoData

\* _read_data run on a stream of bytes, at most `fuel` reads
RECURSIVE ReadRun(_, _, _)
ReadRun(st, stream, fuel) ==
  IF st.state # "reading" \/ fuel = 0 THEN st
  ELSE ReadRun(ReadStep(st, NextFragment(st, stream)), stream, fuel - 1)

ReadData(stream) == ReadRun(ReaderInit, stream, Len(stream) + HeaderBytes)


(***************************************************************************)
(* The device's answers.  A response is described by the packet type and   *)
(* payload the device frames (the wire format is the same in both          *)
(* directions) and by the damage the line does to the frame.               *)
(***************************************************************************)
Resp(type, payload, damage) ==
  [type |-> type, payload |-> payload, damage |-> damage]

\* the bytes Serial.read() delivers for a response
DeviceFrame(resp) ==
  LET frame == SendData(DefaultAddress, resp.type, resp.payload)
      n == Len(frame)
  IN  CASE resp.damage = "header" -> [frame EXCEPT ![1] = 0]
        [] resp.damage = "checksum" -> [frame EXCEPT ![n] = (frame[n] + 1) % 256]
        [] OTHER -> frame

\* a result code no command function knows (0x55)
UnknownCode == 85

\* the error codes a device answers a command with: the ones the command's
\* function names, "no finger" (a transport that answers everything alike)
\* and the unknown one
ErrorCodes(cmd) ==
  {NO_FINGER_FOUND, COMMUNICATION, UnknownCode} \cup
  CASE cmd = SCAN -> {READIMAGE}
    [] cmd = BUFFER_IMAGE -> {MESSY_IMAGE, FEW_FEATURE_POINTS, INVALID_IMAGE}
    [] cmd = SEARCH_TEMPLATE -> {NO_TEMPLATE_FOUND}
    [] cmd = CREATE_TEMPLATE -> {CHARACTERISTICS_MISMATCH}
    [] cmd = STORE_TEMPLATE -> {INVALID_POSITION, FLASH}
    [] OTHER -> {}

\* template counts and search hits <<position, score>> the device reports
DeviceCounts == {0, 2}
DeviceHits == {<<1, 50>>}

TwoBytes(v) == <<ShiftRight(v, 8), ShiftRight(v, 0)>>

\* the payloads of a SUCCESS answer to a command
SuccessPayloads(cmd) ==
  CASE cmd = COUNT_TEMPLATES ->
         {<<SUCCESS>> \o TwoBytes(n) : n \in DeviceCounts}
    [] cmd = SEARCH_TEMPLATE ->
         {<<SUCCESS>> \o TwoBytes(h[1]) \o TwoBytes(h[2]) : h \in DeviceHits}
    [] OTHER -> {<<SUCCESS>>}

\* everything the transport may deliver in answer to a command
Responses(cmd) ==
  {Resp(ACK, p, "none") : p \in SuccessPayloads(cmd)}
    \cup {Resp(ACK, <<code>>, "none") : code \in ErrorCodes(cmd)}
    \cup {Resp(COMMAND, <<SUCCESS>>, "none"),
          Resp(ACK, <<SUCCESS>>, "header"),
          Resp(ACK, <<SUCCESS>>, "checksum")}

(***************************************************************************)
(* Command functions: the mapping of a decoded response to the function's  *)
(* result, "ok" or the name of the exception it raises.                    *)
(***************************************************************************)
RECURSIVE FirstMatch(_, _)
FirstMatch(code, table) ==
  IF table = <<>> THEN "UnknownError"
  ELSE IF code = Head(table)[1] THEN Head(table)[2]
  ELSE FirstMatch(code, Tail(table))

\* the if/elif chain every command function runs on (data_type, payload)
Reply(rr, table) ==
  IF rr.state = "raised" THEN rr.exc
  ELSE IF rr.data_type # ACK THEN "InvalidPacket"
  ELSE IF Len(rr.payload) = 0 THEN "IndexError"
  ELSE IF rr.payload[1] = SUCCESS THEN "ok"
  ELSE FirstMatch(rr.payload[1], table)

ScanResult(rr) ==
  Reply(rr, << <<NO_FINGER_FOUND, "NoFingerFound">>,
               <<COMMUNICATION, "CommunicationError">>,
               <<READIMAGE, "ReadImageError">> >>)

BufferImageResult(rr) ==
  Reply(rr, << <<COMMUNICATION, "CommunicationError">>,
               <<MESSY_IMAGE, "MessyImageError">>,
               <<FEW_FEATURE_POINTS, "FewFeaturePointsError">>,
               <<INVALID_IMAGE, "InvalidImageError">> >>)

\* payload[a] << 8 or payload[b] << 0 on a decoded payload (Python indices)
Field(payload, a, b) ==
  IF Len(payload) < a + 1 THEN TypeErr
  ELSE IF ShiftLeft(payload[a + 1], 8) # 0 THEN ShiftLeft(payload[a + 1], 8)
  ELSE IF Len(payload) < b + 1 THEN TypeErr
  ELSE ShiftLeft(payload[b + 1], 0)

SearchTemplateResult(rr) ==
  LET r == Reply(rr, << <<NO_TEMPLATE_FOUND, "NoTemplateFound">>,
                        <<COMMUNICATION, "CommunicationError">> >>)
  IN  IF r = "ok" /\ (Field(rr.payload, 1, 2) = TypeErr
                       \/ Field(rr.payload, 3, 4) = TypeErr)
        THEN "IndexError" ELSE r

\* (template_pos, score) of a successful search
SearchTemplateValue(rr) ==
  <<Field(rr.payload, 1, 2), Field(rr.payload, 3, 4)>>

CountFingersResult(rr) ==
  LET r == Reply(rr, << <<COMMUNICATION, "CommunicationError">> >>)
  IN  IF r = "ok" /\ Field(rr.payload, 1, 2) = TypeErr
        THEN "IndexError" ELSE r

CountFingersValue(rr) == Field(rr.payload, 1, 2)

CreateTemplateResult(rr) ==
  Reply(rr, << <<COMMUNICATION, "CommunicationError">>,
               <<CHARACTERISTICS_MISMATCH, "CharacteristicsMismatchError">> >>)

StoreTemplateResult(rr) ==
  Reply(rr, << <<COMMUNICATION, "CommunicationError">>,
               <<INVALID_POSITION, "InvalidPosition">>,
               <<FLASH, "FlashError">> >>)

DeleteTemplateResult_NoDeleteError(rr) ==
  Reply(rr, << <<COMMUNICATION, "CommunicationError">> >>)

DeleteTemplateResult(rr) ==
  Reply(rr, << <<COMMUNICATION, "CommunicationError">>,
               <<ERROR_DELETE_TEMPLATE, "DeleteTemplateError">> >>)

EraseFingersResult(rr) ==
  Reply(rr, << <<COMMUNICATION, "CommunicationError">> >>)

\* what _read_data hands to a command function when it returns
Returned(data_type, payload) ==
  [received_data |-> <<>>, counter |-> 0, state |-> "returned", exc |-> "none",
   data_type |-> data_type, payload |-> payload]

\* the command functions by name: what each makes of a decoded response
CommandResult(op, rr) ==
  CASE op = "_scan" -> ScanResult(rr)
    [] op = "_buffer_image" -> BufferImageResult(rr)
    [] op = "_search_template" -> SearchTemplateResult(rr)
    [] op = "count_fingers" -> CountFingersResult(rr)
    [] op = "_create_template" -> CreateTemplateResult(rr)
    [] op = "_store_template" -> StoreTemplateResult(rr)
    [] op = "_delete_template" -> DeleteTemplateResult(rr)
    [] op = "erase_fingers" -> EraseFingersResult(rr)

\* the value a command function returns on success, as a tuple
CommandValue(op, rr) ==
  CASE op = "_search_template" -> SearchTemplateValue(rr)
    [] op = "count_fingers" -> <<CountFingersValue(rr)>>
    [] OTHER -> <<>>

\* the request payloads handed to _send_data
ScanRequest == <<SCAN>>
BufferImageRequest(char_buffer) == <<BUFFER_IMAGE, char_buffer>>
SearchTemplateRequest ==
  <<SEARCH_TEMPLATE, READ>> \o TwoBytes(SearchStartPos)
    \o TwoBytes(SearchTotalTemplates)
CountFingersRequest == <<COUNT_TEMPLATES>>
CreateTemplateRequest == <<CREATE_TEMPLATE>>
StoreTemplateRequest(position) ==
  <<STORE_TEMPLATE, WRITE>> \o TwoBytes(position)


(***************************************************************************)
(* State.                                                                  *)
(***************************************************************************)
VARIABLES
  call,             \* per caller: the frame of the public call it is running
  status_attr,      \* the attribute `status` that set_status puts on g
  data_status,      \* g._data['status']
  kill_read_finger, \* g._data['signals'].get('kill_read_finger')
  clock,            \* time(), in ticks
  codec_in,         \* codec exercise: the (address, data_type, payload) sent
  codec_rd,         \* codec exercise: the locals of the running _read_data
  reply             \* command exercise: a decoded response and what the
                    \* command function made of it

vars ==
  <<call, status_attr, data_status, kill_read_finger, clock, codec_in, codec_rd,
    reply>>

\* threads that may call into the one FingerReader instance
Procs == {1, 2}

\* Global.get('status'): the entry of _data
GlobalGet(data) == data

\* g.status as an expression: the instance attribute once set_status has
\* created it, else Global.__getattr__ -> Global.get('status')
GStatus ==
  IF status_attr # "unset" THEN status_attr ELSE GlobalGet(data_status)

\* get_current_timestamp: int(time())
GetCurrentTimestamp(tick) == tick \div TicksPerSecond

\* Python truth value of a timeout argument
Truthy(x) == x # None /\ x # 0

\* no command exercise under way
NoReply ==
  [op |-> "none", data_type |-> 0, payload |-> <<>>, state |-> "none",
   res |-> "none", value |-> <<>>]

IdleCall ==
  [pc |-> "idle", op |-> "none", phase |-> "none", position |-> None,
   timeout |-> None, start_time |-> 0, enter_tick |-> 0, pending |-> "none",
   available_position |-> None, outcome |-> "none", retval |-> <<>>,
   log |-> <<>>]

\* a call ends: it returns retval (outcome "ok") or raises outcome
Finish(c, outcome, retval) ==
  [c EXCEPT !.pc = "done", !.outcome = outcome, !.retval = retval]

\* the call's record of an exchange: the payload handed to _send_data, the
\* response the transport delivered and what the command function made of it
Logged(c, req, resp, res) ==
  [c EXCEPT !.log = Append(@, [req |-> req, resp |-> resp, res |-> res])]

(***************************************************************************)
(* The decisions of the workflow code.                                     *)
(***************************************************************************)
\* the busy check reading the state holder's entry instead of the attribute
RegisterIsBusy_Entry(status) == data_status # FREE

\* register: `if g.status != SensorStatus.FREE: raise SensorIsBusy`
RegisterIsBusy(status) == status # FREE

\* a loop that never looks at the cancellation flag
ReadHandler_IgnoresKill(res, kill, timeout, now, start_time) ==
  IF res = "ok" THEN "break"
  ELSE IF res = "NoFingerFound" THEN
    IF Truthy(timeout) /\ (now - start_time) >= timeout THEN "timeout"
    ELSE "loop"
  ELSE "error"

\* a loop that polls again after a Scan fault
ReadHandler_Retry(res, kill, timeout, now, start_time) ==
  IF res = "ok" THEN "break"
  ELSE IF res = "NoFingerFound" /\ kill THEN "kill"
  ELSE IF res = "NoFingerFound" /\ Truthy(timeout) /\ (now - start_time) >= timeout
    THEN "timeout"
  ELSE "loop"

\* read: which way the try/except of one loop iteration goes
ReadHandler(res, kill, timeout, now, start_time) ==
  IF res = "ok" THEN "break"
  ELSE IF res = "NoFingerFound" THEN
    IF kill THEN "kill"
    ELSE IF Truthy(timeout) /\ (now - start_time) >= timeout THEN "timeout"
    ELSE "loop"
  ELSE "error"

\* timeout and cancellation exits that recount before set_status(FREE)
ReadStatus_CountFirst(branch, status) ==
  IF branch \in {"loop", "kill", "timeout"} THEN status ELSE FREE

\* a success exit that leaves the mode BUSY for the rest of the workflow
ReadStatus_BreakKeeps(branch, status) ==
  IF branch \in {"loop", "break"} THEN status ELSE FREE

\* a fault exit that forgets set_status(FREE)
ReadStatus_FaultKeeps(branch, status) ==
  IF branch \in {"loop", "error"} THEN status ELSE FREE

\* read: the mode after an iteration that went `branch`
ReadStatus(branch, status) ==
  IF branch = "loop" THEN status ELSE FREE

\* a loop that recounts on the success exit too
ReadCounts_Always(branch) == branch \in {"kill", "timeout", "break"}

\* read: the branches that call count_fingers before they raise
ReadCounts(branch) == branch \in {"kill", "timeout"}

\* read: the exception a counting branch raises once count_fingers returned
ReadRaises(branch) ==
  IF branch = "kill" THEN "KillSignal" ELSE "NoFingerFound"

\* a check_finger without except clauses
CheckFingerExcept_Raw(exc) == exc

\* check_finger: its except clauses, applied to what its body raised
CheckFingerExcept(exc) ==
  IF exc = "NoFingerFound" THEN "NoFingerFound"
  ELSE IF exc = "NoTemplateFound" THEN "FingerNotFound"
  ELSE exc

\* a register that stores although check_finger found the finger
RegisterTry_NoGuard(res) ==
  IF res = "ok" THEN "store"
  ELSE IF res = "NoFingerFound" THEN "NoFingerFound"
  ELSE IF res = "FingerNotFound" THEN "store"
  ELSE res

\* register: the try statement around check_finger; res is "ok" when
\* check_finger returned, else what it raised; "store" stands for falling
\* through to _store_finger
RegisterTry(res) ==
  IF res = "ok" THEN "FingerExists"
  ELSE IF res = "NoFingerFound" THEN "NoFingerFound"
  ELSE IF res = "FingerNotFound" THEN "store"
  ELSE res

\* _store_finger: its except clauses; "return_none" stands for the swallowed
\* NoAvailablePositionFound, after which the function returns None
StoreFingerExcept(exc) ==
  IF exc = "NoAvailablePositionFound" THEN "return_none" ELSE exc

\* `position or get_available_position()`: position 0 taken for "not given"
NeedsAvailablePosition_Falsy(position) == position = None \/ position = 0

\* _store_finger: `position if position is not None else get_available_position()`
NeedsAvailablePosition(position) == position = None

\* the char buffer each phase hands to _buffer_image
BufferFor(phase) == IF phase = "store" THEN WRITE ELSE READ

\* a _store_finger that hands register's timeout on to read()
ReadTimeout_Always(c) == c.timeout

\* the timeout read() runs with: check_finger passes its own, _store_finger none
ReadTimeout(c) == IF c.phase = "store" THEN None ELSE c.timeout

\* register after its verify phase ended with res
RegisterNext(c, res) ==
  LET e == RegisterTry(res) IN
  IF e = "store" THEN [c EXCEPT !.pc = "enter", !.phase = "store"]
  ELSE Finish(c, e, <<>>)

\* an exception raised inside the call travels up through the callers' handlers
Raise(c, exc) ==
  CASE c.op = "check_finger" -> Finish(c, CheckFingerExcept(exc), <<>>)
    [] c.op = "register" /\ c.phase = "verify" ->
         RegisterNext(c, CheckFingerExcept(exc))
    [] c.op = "register" /\ c.phase = "store" ->
         IF StoreFingerExcept(exc) = "return_none" THEN Finish(c, "ok", <<>>)
         ELSE Finish(c, StoreFingerExcept(exc), <<>>)
    [] OTHER -> Finish(c, exc, <<>>)

\* Scan exchanges of a call that were answered "no finger"
NoFingerScans(log) ==
  Cardinality({i \in DOMAIN log :
     log[i].req = ScanRequest /\ log[i].res = "NoFingerFound"})

(***************************************************************************)
(* Actions.                                                                *)
(***************************************************************************)
Others == <<data_status, codec_in, codec_rd, reply>>

\* read(): lines 324-326
EnterRead(t, c) ==
  /\ status_attr' = BUSY
  /\ call' = [call EXCEPT ![t] =
       [c EXCEPT !.pc = "scan", !.start_time = GetCurrentTimestamp(clock),
                 !.enter_tick = clock]]
  /\ UNCHANGED <<kill_read_finger, clock, Others>>

\* a caller invokes read(timeout)
CallRead(t, timeout) ==
  /\ call[t].pc = "idle"
  /\ EnterRead(t, [IdleCall EXCEPT !.op = "read", !.phase = "read",
                                   !.timeout = timeout])

\* a caller invokes check_finger(timeout), which goes straight into read()
CallCheckFinger(t, timeout) ==
  /\ call[t].pc = "idle"
  /\ EnterRead(t, [IdleCall EXCEPT !.op = "check_finger", !.phase = "verify",
                                   !.timeout = timeout])

\* a caller invokes register(position, timeout): the busy check of line 600
CallRegister(t, position, timeout) ==
  /\ call[t].pc = "idle"
  /\ LET c == [IdleCall EXCEPT !.op = "register", !.phase = "verify",
                               !.position = position, !.timeout = timeout]
     IN  call' = [call EXCEPT ![t] =
           IF RegisterIsBusy(GStatus) THEN Finish(c, "SensorIsBusy", <<>>)
           ELSE [c EXCEPT !.pc = "enter"]]
  /\ UNCHANGED <<status_attr, kill_read_finger, clock, Others>>

\* register reaches read(): through check_finger, later through _store_finger
Enter(t) ==
  /\ call[t].pc = "enter"
  /\ EnterRead(t, call[t])

\* one iteration of the loop of read(): the Scan exchange and its handling
Scan(t, resp) ==
  /\ call[t].pc = "scan"
  /\ LET res == ScanResult(ReadData(DeviceFrame(resp)))
         c == Logged(call[t], ScanRequest, resp, res)
         branch == ReadHandler(res, kill_read_finger, ReadTimeout(call[t]),
                               GetCurrentTimestamp(clock), call[t].start_time)
     IN  /\ branch = "loop" => NoFingerScans(call[t].log) < MaxPolls
         /\ status_attr' = ReadStatus(branch, status_attr)
         /\ kill_read_finger' = IF branch = "kill" THEN FALSE ELSE kill_read_finger
         /\ call' = [call EXCEPT ![t] =
              IF ReadCounts(branch)
                THEN [c EXCEPT !.pc = "count_exit", !.pending = ReadRaises(branch)]
              ELSE IF branch = "break"
                THEN IF c.op = "read" THEN Finish(c, "ok", <<>>)
                     ELSE [c EXCEPT !.pc = "buffer"]
              ELSE IF branch = "loop" THEN c
              ELSE Raise(c, "ReadInputError")]
  /\ UNCHANGED <<clock, Others>>

\* the count_fingers() of the cancellation and timeout exits of read()
CountExit(t, resp) ==
  /\ call[t].pc = "count_exit"
  /\ LET res == CountFingersResult(ReadData(DeviceFrame(resp)))
         c == Logged(call[t], CountFingersRequest, resp, res)
     IN  call' = [call EXCEPT ![t] =
           IF res = "ok" THEN Raise(c, c.pending) ELSE Raise(c, res)]
  /\ UNCHANGED <<status_attr, kill_read_finger, clock, Others>>

\* _buffer_image(CharBuffer.READ) of check_finger, (WRITE) of _store_finger
BufferImage(t, resp) ==
  /\ call[t].pc = "buffer"
  /\ LET res == BufferImageResult(ReadData(DeviceFrame(resp)))
         c == Logged(call[t], BufferImageRequest(BufferFor(call[t].phase)),
                     resp, res)
     IN  call' = [call EXCEPT ![t] =
           IF res = "ok"
             THEN [c EXCEPT !.pc = IF c.phase = "store" THEN "create" ELSE "search"]
           ELSE Raise(c, res)]
  /\ UNCHANGED <<status_attr, kill_read_finger, clock, Others>>

\* _search_template() of check_finger
SearchTemplate(t, resp) ==
  /\ call[t].pc = "search"
  /\ LET rr == ReadData(DeviceFrame(resp))
         res == SearchTemplateResult(rr)
         c == Logged(call[t], SearchTemplateRequest, resp, res)
     IN  call' = [call EXCEPT ![t] =
           IF res = "ok"
             THEN IF c.op = "register" THEN RegisterNext(c, "ok")
                  ELSE Finish(c, "ok", SearchTemplateValue(rr))
           ELSE Raise(c, res)]
  /\ UNCHANGED <<status_attr, kill_read_finger, clock, Others>>

\* _create_template() of _store_finger, then the choice of the position
CreateTemplate(t, resp) ==
  /\ call[t].pc = "create"
  /\ LET res == CreateTemplateResult(ReadData(DeviceFrame(resp)))
         c == Logged(call[t], CreateTemplateRequest, resp, res)
     IN  call' = [call EXCEPT ![t] =
           IF res = "ok"
             THEN IF NeedsAvailablePosition(c.position)
                    THEN [c EXCEPT !.pc = "get_available_position"]
                  ELSE [c EXCEPT !.pc = "store", !.available_position = c.position]
           ELSE Raise(c, res)]
  /\ UNCHANGED <<status_attr, kill_read_finger, clock, Others>>

\* get_available_position(): count_fingers()
GetAvailablePosition(t, resp) ==
  /\ call[t].pc = "get_available_position"
  /\ LET rr == ReadData(DeviceFrame(resp))
         res == CountFingersResult(rr)
         c == Logged(call[t], CountFingersRequest, resp, res)
     IN  call' = [call EXCEPT ![t] =
           IF res = "ok"
             THEN [c EXCEPT !.pc = "store",
                            !.available_position = CountFingersValue(rr)]
           ELSE Raise(c, res)]
  /\ UNCHANGED <<status_attr, kill_read_finger, clock, Others>>

\* _store_template(position=available_position)
StoreTemplate(t, resp) ==
  /\ call[t].pc = "store"
  /\ LET res == StoreTemplateResult(ReadData(DeviceFrame(resp)))
         c == Logged(call[t], StoreTemplateRequest(call[t].available_position),
                     resp, res)
     IN  call' = [call EXCEPT ![t] =
           IF res = "ok" THEN Finish(c, "ok", <<c.available_position>>)
           ELSE Raise(c, res)]
  /\ UNCHANGED <<status_attr, kill_read_finger, clock, Others>>

\* the caller takes the result; its thread is free for the next call
Return(t) ==
  /\ call[t].pc = "done"
  /\ call' = [call EXCEPT ![t] = IdleCall]
  /\ UNCHANGED <<status_attr, kill_read_finger, clock, Others>>

\* some consumer sets g.signals['kill_read_finger']
SetKill ==
  /\ ~kill_read_finger
  /\ kill_read_finger' = TRUE
  /\ UNCHANGED <<call, status_attr, clock, Others>>

\* time passes
Tick ==
  /\ clock < MaxTicks
  /\ clock' = clock + 1
  /\ UNCHANGED <<call, status_attr, kill_read_finger, Others>>

(***************************************************************************)
(* Specification of the workflows with one call in flight at a time (the   *)
(* use the library is written for).                                        *)
(***************************************************************************)
Timeouts == {None} \cup 0..MaxTimeout
Positions == {None} \cup 0..MaxPos

\* the one thread that calls
Solo == {1}

Init ==
  /\ call = [t \in Procs |-> IdleCall]
  /\ status_attr = "unset"
  /\ data_status = FREE
  /\ kill_read_finger = FALSE
  /\ clock = 0
  /\ codec_in = [address |-> DefaultAddress, data_type |-> COMMAND, payload |-> <<>>]
  /\ codec_rd = ReaderInit
  /\ reply = NoReply

Next ==
  \/ \E t \in Solo, timeout \in Timeouts :
       CallRead(t, timeout)
  \/ \E t \in Solo, timeout \in Timeouts :
       CallCheckFinger(t, timeout)
  \/ \E t \in Solo, position \in Positions, timeout \in Timeouts :
       CallRegister(t, position, timeout)
  \/ \E t \in Solo : Enter(t)
  \/ \E t \in Solo, resp \in Responses(SCAN) : Scan(t, resp)
  \/ \E t \in Solo, resp \in Responses(COUNT_TEMPLATES) : CountExit(t, resp)
  \/ \E t \in Solo, resp \in Responses(BUFFER_IMAGE) : BufferImage(t, resp)
  \/ \E t \in Solo, resp \in Responses(SEARCH_TEMPLATE) : SearchTemplate(t, resp)
  \/ \E t \in Solo, resp \in Responses(CREATE_TEMPLATE) : CreateTemplate(t, resp)
  \/ \E t \in Solo, resp \in Responses(COUNT_TEMPLATES) : GetAvailablePosition(t, resp)
  \/ \E t \in Solo, resp \in Responses(STORE_TEMPLATE) : StoreTemplate(t, resp)
  \/ \E t \in Solo : Return(t)
  \/ SetKill
  \/ Tick

Spec == Init /\ [][Next]_vars


(***************************************************************************)
(* Specification of two threads calling into the same instance: nothing in *)
(* the library serialises them.  The device answers the way a working      *)
(* sensor does.                                                            *)
(***************************************************************************)
ConcResponses(cmd) ==
  {Resp(ACK, p, "none") : p \in SuccessPayloads(cmd)}
    \cup (IF cmd = SCAN THEN {Resp(ACK, <<NO_FINGER_FOUND>>, "none")} ELSE {})
    \cup (IF cmd = SEARCH_TEMPLATE
            THEN {Resp(ACK, <<NO_TEMPLATE_FOUND>>, "none")} ELSE {})

NextConc ==
  \/ \E t \in Procs : CallCheckFinger(t, None)
  \/ \E t \in Procs, position \in {None, 0} : CallRegister(t, position, None)
  \/ \E t \in Procs : Enter(t)
  \/ \E t \in Procs, resp \in ConcResponses(SCAN) : Scan(t, resp)
  \/ \E t \in Procs, resp \in ConcResponses(COUNT_TEMPLATES) : CountExit(t, resp)
  \/ \E t \in Procs, resp \in ConcResponses(BUFFER_IMAGE) : BufferImage(t, resp)
  \/ \E t \in Procs, resp \in ConcResponses(SEARCH_TEMPLATE) : SearchTemplate(t, resp)
  \/ \E t \in Procs, resp \in ConcResponses(CREATE_TEMPLATE) : CreateTemplate(t, resp)
  \/ \E t \in Procs, resp \in ConcResponses(COUNT_TEMPLATES) :
       GetAvailablePosition(t, resp)
  \/ \E t \in Procs, resp \in ConcResponses(STORE_TEMPLATE) : StoreTemplate(t, resp)
  \/ \E t \in Procs : Return(t)
  \/ SetKill

SpecConc == Init /\ [][NextConc]_vars

(***************************************************************************)
(* Specification of the codec alone: a frame written by _send_data is fed, *)
(* one byte per read, to _read_data; reads past its end time out.          *)
(***************************************************************************)
CodecBytes == {0, 1, 246, 255}
CodecAddresses == {DefaultAddress, <<258, 772>>}

RECURSIVE SeqsUpTo(_, _)
SeqsUpTo(S, n) ==
  IF n = 0 THEN {<<>>}
  ELSE LET shorter == SeqsUpTo(S, n - 1)
       IN  shorter \cup {Append(q, b) : q \in shorter, b \in S}

\* the bytes on the wire for the codec exercise
CodecStream == SendData(codec_in.address, codec_in.data_type, codec_in.payload)

InitCodec ==
  /\ call = [t \in Procs |-> IdleCall]
  /\ status_attr = "unset"
  /\ data_status = FREE
  /\ kill_read_finger = FALSE
  /\ clock = 0
  /\ codec_in \in [address : CodecAddresses, data_type : {COMMAND, ACK},
                   payload : SeqsUpTo(CodecBytes, MaxLen)]
  /\ codec_rd = ReaderInit
  /\ reply = NoReply

\* one iteration of the loop of _read_data
CodecRead ==
  /\ codec_rd.state = "reading"
  /\ codec_rd' = ReadStep(codec_rd, NextFragment(codec_rd, CodecStream))
  /\ UNCHANGED <<call, status_attr, data_status, kill_read_finger, clock, codec_in,
                 reply>>

NextCodec == CodecRead

SpecCodec == InitCodec /\ [][NextCodec]_vars

(***************************************************************************)
(* Specification of the codec on a line that alters the frame: one bit of  *)
(* one byte of the frame written by _send_data is inverted before          *)
(* Serial.read() delivers it, the other bytes (the checksum among them)    *)
(* arrive as written.                                                      *)
(***************************************************************************)
LineBytes == {0, 1, 253}

\* byte b with bit k inverted
FlipBit(b, k) ==
  IF (b \div (2 ^ k)) % 2 = 1 THEN b - 2 ^ k ELSE b + 2 ^ k

\* the frame positions the line may alter: the two bytes of the start
\* marker and the bytes of the payload (which begins at the tenth byte)
MarkerAt == {1, 2}
PayloadAt(payload) == {9 + i : i \in 1..Len(payload)}

\* the bytes Serial.read() delivers
LineStream ==
  LET frame == SendData(codec_in.address, codec_in.data_type, codec_in.payload)
  IN  [frame EXCEPT ![codec_in.line.at] = FlipBit(@, codec_in.line.bit)]

InitLine ==
  /\ call = [t \in Procs |-> IdleCall]
  /\ status_attr = "unset"
  /\ data_status = FREE
  /\ kill_read_finger = FALSE
  /\ clock = 0
  /\ \E data_type \in {COMMAND, ACK}, payload \in SeqsUpTo(LineBytes, MaxLen) :
       \E at \in MarkerAt \cup PayloadAt(payload), bit \in 0..7 :
         codec_in = [address |-> DefaultAddress, data_type |-> data_type,
                     payload |-> payload, line |-> [at |-> at, bit |-> bit]]
  /\ codec_rd = ReaderInit
  /\ reply = NoReply

\* one iteration of the loop of _read_data on the altered frame
LineRead ==
  /\ codec_rd.state = "reading"
  /\ codec_rd' = ReadStep(codec_rd, NextFragment(codec_rd, LineStream))
  /\ UNCHANGED <<call, status_attr, data_status, kill_read_finger, clock, codec_in,
                 reply>>

NextLine == LineRead

SpecLine == InitLine /\ [][NextLine]_vars

(***************************************************************************)
(* Specification of the codec on a line that is late: Serial.read()        *)
(* returns b'' when no byte arrived within its timeout.  Either one read   *)
(* of the frame times out (the byte it waited for is delivered by the next *)
(* read) or the device sends nothing and every read times out.            *)
(***************************************************************************)
\* the responses whose frames are read late
LatePayloads == {<<SUCCESS>>, <<SUCCESS, 0, 2>>, <<253>>}

\* the bytes Serial.read() delivers, NoData for a read that timed out
LateStream ==
  LET frame == SendData(codec_in.address, codec_in.data_type, codec_in.payload)
      at == codec_in.line.at
  IN  IF codec_in.line.kind = "silent" THEN <<>>
      ELSE SubSeq(frame, 1, at - 1) \o <<NoData>> \o SubSeq(frame, at, Len(frame))

InitLate ==
  /\ call = [t \in Procs |-> IdleCall]
  /\ status_attr = "unset"
  /\ data_status = FREE
  /\ kill_read_finger = FALSE
  /\ clock = 0
  /\ \E data_type \in {COMMAND, ACK}, payload \in LatePayloads :
       \/ \E at \in 1..(Len(payload) + 11) :
            codec_in = [address |-> DefaultAddress, data_type |-> data_type,
                        payload |-> payload,
                        line |-> [kind |-> "timeout", at |-> at]]
       \/ codec_in = [address |-> DefaultAddress, data_type |-> data_type,
                      payload |-> payload, line |-> [kind |-> "silent", at |-> 0]]
  /\ codec_rd = ReaderInit
  /\ reply = NoReply

\* one iteration of the loop of _read_data on the late line
LateRead ==
  /\ codec_rd.state = "reading"
  /\ codec_rd' = ReadStep(codec_rd, NextFragment(codec_rd, LateStream))
  /\ UNCHANGED <<call, status_attr, data_status, kill_read_finger, clock, codec_in,
                 reply>>

NextLate == LateRead

SpecLate == InitLate /\ [][NextLate]_vars

(***************************************************************************)
(* Specification of the command functions alone: a decoded response        *)
(* (data_type, payload), as _read_data returns it, is handed to one of the *)
(* eight command functions.                                                *)
(***************************************************************************)
Commands ==
  {"_scan", "_buffer_image", "_search_template", "count_fingers",
   "_create_template", "_store_template", "_delete_template", "erase_fingers"}

\* packet types of a response: the two of DataType and two that are neither
ReplyTypes == {COMMAND, ACK, 2, 8}

\* byte values of the two-byte result fields
FieldBytes == {0, 1, 10, 255}

\* the result fields that follow SUCCESS in the answer to a command
ReplyFields(op) ==
  CASE op = "count_fingers" ->
         {<<a, b>> : a \in FieldBytes, b \in FieldBytes}
    [] op = "_search_template" ->
         {<<a, b, c, d>> : a \in FieldBytes, b \in FieldBytes,
                           c \in FieldBytes, d \in FieldBytes}
    [] OTHER -> {<<>>}

\* the payloads of the responses: any first byte; a SUCCESS carries the
\* command's result fields, any other code stands alone
ReplyPayloads(op) ==
  {<<b>> : b \in 1..255} \cup {<<SUCCESS>> \o f : f \in ReplyFields(op)}

InitReply ==
  /\ call = [t \in Procs |-> IdleCall]
  /\ status_attr = "unset"
  /\ data_status = FREE
  /\ kill_read_finger = FALSE
  /\ clock = 0
  /\ codec_in = [address |-> DefaultAddress, data_type |-> COMMAND, payload |-> <<>>]
  /\ codec_rd = ReaderInit
  /\ \E op \in Commands, data_type \in ReplyTypes :
       \E payload \in ReplyPayloads(op) :
         reply = [NoReply EXCEPT !.op = op, !.data_type = data_type,
                                 !.payload = payload, !.state = "received"]

\* the command function runs its if/elif chain on the response
HandleReply ==
  /\ reply.state = "received"
  /\ LET rr == Returned(reply.data_type, reply.payload)
         res == CommandResult(reply.op, rr)
     IN  reply' = [reply EXCEPT !.state = "handled", !.res = res,
                     !.value = IF res = "ok" THEN CommandValue(reply.op, rr)
                               ELSE <<>>]
  /\ UNCHANGED <<call, status_attr, data_status, kill_read_finger, clock,
                 codec_in, codec_rd>>

NextReply == HandleReply

SpecReply == InitReply /\ [][NextReply]_vars

(***************************************************************************)
(* Properties.                                                             *)
(***************************************************************************)
Reqs(log) == [i \in DOMAIN log |-> log[i].req]

IsPrefix(a, b) == Len(a) <= Len(b) /\ \A i \in DOMAIN a : a[i] = b[i]

LastOf(log) == log[Len(log)]

\* the search exchange of the call was answered SUCCESS
SearchMatched(log) ==
  \E i \in DOMAIN log : log[i].req = SearchTemplateRequest /\ log[i].res = "ok"

CreateOrStoreIssued(log) ==
  \E i \in DOMAIN log : log[i].req[1] \in {CREATE_TEMPLATE, STORE_TEMPLATE}

\* C1: when the search exchange of register()'s verify phase is answered
\* SUCCESS, register raises FingerExists and the call issues neither a
\* create-template nor a store-template exchange, before or after.
C1_EnrollGuard ==
  \A t \in Procs :
    (call[t].op = "register" /\ SearchMatched(call[t].log)) =>
      /\ call[t].pc = "done"
      /\ call[t].outcome = "FingerExists"
      /\ ~CreateOrStoreIssued(call[t].log)

C1_Witness ==
  \E t \in Procs :
    /\ call[t].op = "register"
    /\ SearchMatched(call[t].log)
    /\ call[t].outcome = "FingerExists"

\* the script of the end-to-end example: every exchange answered SUCCESS,
\* the search answered NO_TEMPLATE_FOUND
Scripted(log) ==
  \A i \in DOMAIN log :
    IF log[i].req = SearchTemplateRequest
      THEN log[i].resp = Resp(ACK, <<NO_TEMPLATE_FOUND>>, "none")
    ELSE log[i].res = "ok"

EnrollSequence(p) ==
  << ScanRequest, BufferImageRequest(READ), SearchTemplateRequest,
     ScanRequest, BufferImageRequest(WRITE), CreateTemplateRequest,
     StoreTemplateRequest(p) >>

\* C2: a register(position=p) whose exchanges are answered as scripted issues
\* scan, buffer-image(READ), search, scan, buffer-image(WRITE),
\* create-template, store-template(p), in that order and nothing else (no
\* count-templates), and returns p.
C2_EnrollSequence ==
  \A t \in Procs :
    (/\ call[t].op = "register"
     /\ call[t].position # None
     /\ call[t].outcome # "SensorIsBusy"
     /\ Scripted(call[t].log)) =>
      /\ IsPrefix(Reqs(call[t].log), EnrollSequence(call[t].position))
      /\ call[t].pc = "done" =>
           /\ Reqs(call[t].log) = EnrollSequence(call[t].position)
           /\ call[t].outcome = "ok"
           /\ call[t].retval = <<call[t].position>>

C2_Witness ==
  \E t \in Procs :
    /\ call[t].op = "register"
    /\ call[t].position = 0
    /\ call[t].pc = "done"
    /\ Scripted(call[t].log)
    /\ Reqs(call[t].log) = EnrollSequence(0)
    /\ call[t].retval = <<0>>

\* every request of the call was answered with the no-finger result
AllNoFinger(log) ==
  \A i \in DOMAIN log : log[i].resp = Resp(ACK, <<NO_FINGER_FOUND>>, "none")

\* C3: read(timeout=T), T > 0, on a transport that answers every request
\* with the no-finger result and with no cancellation seen, ends with
\* NoFingerFound, and not before T seconds have passed since the loop was
\* entered.
C3_TimeoutOutcome ==
  \A t \in Procs :
    (/\ call[t].op = "read"
     /\ call[t].pc = "done"
     /\ call[t].timeout > 0
     /\ call[t].pending # "KillSignal"
     /\ AllNoFinger(call[t].log)) =>
      /\ call[t].outcome = "NoFingerFound"
      /\ clock - call[t].enter_tick >= call[t].timeout * TicksPerSecond

\* thread t handles in this step a Scan exchange that was answered no-finger
HandlesNoFinger(t) ==
  /\ call[t].pc = "scan"
  /\ Len(call'[t].log) = Len(call[t].log) + 1
  /\ LastOf(call'[t].log).res = "NoFingerFound"

\* C4: when the flag kill_read_finger is set at the moment the loop handles
\* a no-finger response, the loop clears the flag and read() reports
\* KillSignal, whether or not the timeout has elapsed.
C4_CancellationPrecedence ==
  [][\A t \in Procs :
       /\ (HandlesNoFinger(t) /\ kill_read_finger) =>
            (~kill_read_finger' /\ call'[t].pending = "KillSignal")
       /\ (call[t].pending = "KillSignal" /\ call[t].pc # "done"
             /\ call'[t].pc = "done") =>
            call'[t].outcome = "KillSignal"]_vars

\* a register() call that passed the busy check and has not ended
InSequence(c) == c.op = "register" /\ c.pc \notin {"idle", "done"}

\* C5: of two concurrent register() calls at most one is past the busy check
\* and inside its detection/enrollment sequence.
C5_MutualExclusion ==
  \A t, u \in Procs :
    t # u => ~(InSequence(call[t]) /\ InSequence(call[u]))

\* C6: a check_finger() called while the mode is BUSY ends at once, without
\* an exchange and without entering a detection loop.
C6_VerifyFailsFast ==
  [][\A t \in Procs :
       (call[t].pc = "idle" /\ call'[t].op = "check_finger" /\ GStatus = BUSY) =>
         (call'[t].pc = "done" /\ call'[t].log = <<>>)]_vars

\* C7: a register() called while the mode is not FREE raises SensorIsBusy in
\* that very step, with no exchange, and leaves the mode and the flag alone.
C7_BusyRejected ==
  [][\A t \in Procs :
       (call[t].pc = "idle" /\ call'[t].op = "register" /\ GStatus # FREE) =>
         /\ call'[t].pc = "done"
         /\ call'[t].outcome = "SensorIsBusy"
         /\ call'[t].log = <<>>
         /\ UNCHANGED <<status_attr, data_status, kill_read_finger>>]_vars

C7_Witness ==
  \E t \in Procs :
    /\ call[t].op = "register"
    /\ call[t].outcome = "SensorIsBusy"
    /\ call[t].log = <<>>
    /\ GStatus = BUSY

\* C8: the mode is BUSY exactly while a detection loop runs: from read()'s
\* entry to the exit of its loop; once read() has returned or raised (by
\* success, timeout, cancellation or a Scan fault) the mode is FREE.
C8_BusyWhileDetecting ==
  (GStatus = BUSY) <=> (\E t \in Procs : call[t].pc = "scan")

C8_Witness ==
  \E t \in Procs :
    /\ call[t].op = "read"
    /\ call[t].pc = "done"
    /\ call[t].outcome = "ReadInputError"
    /\ status_attr = FREE

\* C9 as stated: every exit of the loop (success, timeout, cancellation)
\* performs a count-templates exchange and the mode is FREE only after it.
C9_CountBeforeFree ==
  \A t \in Procs :
    (/\ call[t].op = "read"
     /\ call[t].pc \in {"count_exit", "done"}
     /\ call[t].outcome # "ReadInputError"
     /\ GStatus = FREE) =>
      /\ call[t].log # <<>>
      /\ LastOf(call[t].log).req = CountFingersRequest

CountIssued(log) == \E i \in DOMAIN log : log[i].req = CountFingersRequest

\* C9 amended: only the timeout and the cancellation exit of the loop
\* perform a count-templates exchange, and the mode is already FREE when
\* that exchange is issued; the success exit and the fault exit perform none.
C9_CountOnlyOnTimeoutOrKill ==
  \A t \in Procs :
    call[t].op = "read" =>
      /\ call[t].pc = "count_exit" =>
           /\ GStatus = FREE
           /\ ~CountIssued(call[t].log)
           /\ LastOf(call[t].log).res = "NoFingerFound"
           /\ call[t].pending \in {"KillSignal", "NoFingerFound"}
      /\ call[t].pc = "done" =>
           /\ CountIssued(call[t].log) <=> call[t].pending # "none"
           /\ call[t].outcome \in {"ok", "ReadInputError"} =>
                ~CountIssued(call[t].log)

C9_Witness ==
  \E t \in Procs :
    /\ call[t].op = "read"
    /\ call[t].pc = "done"
    /\ call[t].outcome = "NoFingerFound"
    /\ LastOf(call[t].log).req = CountFingersRequest
    /\ GStatus = FREE

\* C10: _read_data fed the bytes of _send_data(type, payload) returns
\* (type, payload) and raises nothing.
C10_RoundTrip ==
  /\ codec_rd.state # "raised"
  /\ codec_rd.state = "returned" =>
       /\ codec_rd.data_type = codec_in.data_type
       /\ codec_rd.payload = codec_in.payload

\* C11: when one bit of one payload byte of an encoder-made frame is
\* inverted and the checksum bytes arrive as written, _read_data raises
\* CorruptedPacket: the altered frame is never accepted.
C11_ChecksumSensitivity ==
  (codec_in.line.at \in PayloadAt(codec_in.payload)
     /\ codec_rd.state # "reading") =>
    (codec_rd.state = "raised" /\ codec_rd.exc = "CorruptedPacket")

\* C12 as stated: when one of the first two received bytes is not the start
\* marker's, the decoder raises InvalidPacket once those two bytes have been
\* read and reads no further byte.
C12_FaultAfterTwoBytes ==
  (codec_in.line.at \in MarkerAt /\ codec_rd.counter >= 2) =>
    /\ codec_rd.counter = 2
    /\ codec_rd.state = "raised"
    /\ codec_rd.exc = "InvalidPacket"

\* C12 amended: when one of the first two received bytes is not the start
\* marker's, the decoder goes on reading until twelve reads have been made
\* and raises InvalidPacket at the twelfth, whatever the later bytes are; it
\* reads nothing after that (no resynchronisation).
C12_FaultAtTwelfthRead ==
  codec_in.line.at \in MarkerAt =>
    /\ codec_rd.counter < HeaderBytes => codec_rd.state = "reading"
    /\ codec_rd.counter >= HeaderBytes =>
         /\ codec_rd.counter = HeaderBytes
         /\ codec_rd.state = "raised"
         /\ codec_rd.exc = "InvalidPacket"

C12_Witness ==
  /\ codec_in.line.at = 2
  /\ codec_rd.counter = HeaderBytes
  /\ codec_rd.state = "raised"
  /\ codec_rd.exc = "InvalidPacket"

\* the error codes the mapping names for each operation, with their faults
NamedFaults(op) ==
  CASE op = "_scan" ->
         {<<2, "NoFingerFound">>, <<1, "CommunicationError">>,
          <<3, "ReadImageError">>}
    [] op = "_buffer_image" ->
         {<<1, "CommunicationError">>, <<6, "MessyImageError">>,
          <<7, "FewFeaturePointsError">>, <<21, "InvalidImageError">>}
    [] op = "_search_template" ->
         {<<9, "NoTemplateFound">>, <<1, "CommunicationError">>}
    [] op = "count_fingers" -> {<<1, "CommunicationError">>}
    [] op = "_create_template" ->
         {<<1, "CommunicationError">>, <<10, "CharacteristicsMismatchError">>}
    [] op = "_store_template" ->
         {<<1, "CommunicationError">>, <<11, "InvalidPosition">>,
          <<24, "FlashError">>}
    [] op = "_delete_template" ->
         {<<1, "CommunicationError">>, <<16, "DeleteTemplateError">>}
    [] op = "erase_fingers" -> {<<1, "CommunicationError">>}

\* C13: each of the eight command functions maps a decoded response so: a
\* packet type other than ACK gives InvalidPacket whatever the payload;
\* else a first payload byte 0x00 gives success; else one of the function's
\* own error codes gives its named fault; every other byte, the error codes
\* of the other functions included, gives UnknownError.
C13_ResponseMapping ==
  reply.state = "handled" =>
    reply.res =
      IF reply.data_type # 7 THEN "InvalidPacket"
      ELSE IF reply.payload[1] = 0 THEN "ok"
      ELSE IF \E nf \in NamedFaults(reply.op) : nf[1] = reply.payload[1]
        THEN (CHOOSE nf \in NamedFaults(reply.op) : nf[1] = reply.payload[1])[2]
      ELSE "UnknownError"

C13_Witness ==
  /\ reply.state = "handled"
  /\ reply.op = "_delete_template"
  /\ reply.data_type = ACK
  /\ reply.payload = <<ERROR_DELETE_TEMPLATE>>
  /\ reply.res = "DeleteTemplateError"

\* C14: count_fingers returns 256 * payload[1] + payload[2] and
\* _search_template returns (256 * payload[1] + payload[2],
\* 256 * payload[3] + payload[4]), for every pair of byte values (payload
\* indices as in the source, from 0).
C14_BigEndianFields ==
  (reply.state = "handled" /\ reply.res = "ok") =>
    /\ reply.op = "count_fingers" =>
         reply.value = <<256 * reply.payload[2] + reply.payload[3]>>
    /\ reply.op = "_search_template" =>
         reply.value = <<256 * reply.payload[2] + reply.payload[3],
                         256 * reply.payload[4] + reply.payload[5]>>

\* the outcomes of the workflow level
WorkflowOutcomes ==
  {"SensorIsBusy", "FingerExists", "FingerNotFound", "NoAvailablePositionFound",
   "KillSignal", "NoFingerFound", "ReadInputError"}

\* C15: every fault check_finger() and register() raise is a workflow-level
\* outcome (SensorIsBusy, FingerExists, FingerNotFound,
\* NoAvailablePositionFound, KillSignal, NoFingerFound, ReadInputError); a
\* protocol fault met in a step is never raised to the caller as itself.
C15_OnlyWorkflowOutcomes ==
  \A t \in Procs :
    (/\ call[t].op \in {"check_finger", "register"}
     /\ call[t].pc = "done"
     /\ call[t].outcome # "ok") =>
      call[t].outcome \in WorkflowOutcomes

\* C16: a register() whose store-template exchange is answered with the
\* device's refusal of the position ends by raising
\* NoAvailablePositionFound (not another fault, not a normal return).
C16_NoPositionSurfaced ==
  \A t \in Procs :
    (/\ call[t].op = "register"
     /\ call[t].pc = "done"
     /\ call[t].log # <<>>
     /\ LastOf(call[t].log).req[1] = STORE_TEMPLATE
     /\ LastOf(call[t].log).resp = Resp(ACK, <<INVALID_POSITION>>, "none")) =>
      call[t].outcome = "NoAvailablePositionFound"

\* the exchanges that may follow the Scan exchanges of a check_finger()
VerifyTails ==
  { <<>>, <<CountFingersRequest>>, <<BufferImageRequest(READ)>>,
    <<BufferImageRequest(READ), SearchTemplateRequest>> }

\* the log is one or more Scan exchanges followed by `tail`
ScansThen(log, tail) ==
  \E k \in 1..Len(log) :
    /\ \A i \in 1..k : log[i].req = ScanRequest
    /\ SubSeq(Reqs(log), k + 1, Len(log)) = tail

\* the step recorded in a log entry failed; a Scan answered no-finger is the
\* detection step still under way
StepFailed(e) ==
  e.res # "ok" /\ ~(e.req = ScanRequest /\ e.res = "NoFingerFound")

C18_ScanFaultEndsLoop ==
  \A t \in Procs :
    \A i \in DOMAIN call[t].log :
      (/\ call[t].log[i].req = ScanRequest
       /\ call[t].log[i].res \notin {"ok", "NoFingerFound"}) =>
        /\ i = Len(call[t].log)
        /\ call[t].pc = "done"
        /\ call[t].outcome = "ReadInputError"
        /\ GStatus = FREE

C18_Witness ==
  \E t \in Procs :
    /\ call[t].op = "read"
    /\ call[t].pc = "done"
    /\ call[t].outcome = "ReadInputError"
    /\ LastOf(call[t].log).req = ScanRequest
    /\ LastOf(call[t].log).res = "CorruptedPacket"
    /\ GStatus = FREE

\* C19: the cancellation flag is consumed only by the handling of a Scan
\* exchange answered no-finger; when the flag is set while the loop runs,
\* the next Scan exchange answered no-finger is the loop's last, and the
\* call that took that exit ends with KillSignal.
C19_BoundedCancellation ==
  [][/\ (kill_read_finger /\ ~kill_read_finger') =>
          \E t \in Procs : HandlesNoFinger(t)
     /\ \A t \in Procs :
          /\ (HandlesNoFinger(t) /\ kill_read_finger) => call'[t].pc # "scan"
          /\ (call[t].op = "read" /\ call[t].pending = "KillSignal"
                /\ call'[t].pc = "done") =>
               call'[t].outcome = "KillSignal"]_vars

\* C20: on the storage path register() stores at its position argument when
\* one is given (0 included), straight after create-template; otherwise at
\* the value count_fingers returned from a count-templates exchange issued
\* between create-template and store-template; a store answered SUCCESS
\* makes register return that position.
C20_TargetPosition ==
  \A t \in Procs :
    call[t].op = "register" =>
      LET log == call[t].log IN
      \A i \in DOMAIN log :
        log[i].req[1] = STORE_TEMPLATE =>
          /\ i >= 2
          /\ LET target ==
                   IF call[t].position # None THEN call[t].position
                   ELSE CountFingersValue(ReadData(DeviceFrame(log[i - 1].resp)))
             IN  /\ call[t].position # None =>
                      log[i - 1].req = CreateTemplateRequest
                 /\ call[t].position = None =>
                      /\ i >= 3
                      /\ log[i - 1].req = CountFingersRequest
                      /\ log[i - 1].res = "ok"
                      /\ log[i - 2].req = CreateTemplateRequest
                 /\ log[i].req =
                      <<STORE_TEMPLATE, WRITE, (target \div 256) % 256, target % 256>>
                 /\ log[i].res = "ok" =>
                      /\ call[t].pc = "done"
                      /\ call[t].outcome = "ok"
                      /\ call[t].retval = <<target>>

C20_Witness ==
  \E t \in Procs :
    /\ call[t].op = "register"
    /\ call[t].position = None
    /\ call[t].pc = "done"
    /\ call[t].outcome = "ok"
    /\ call[t].retval = <<2>>
    /\ LastOf(call[t].log).req = StoreTemplateRequest(2)

\* C21: a read that times out is tolerated at every position of the frame:
\* the decoder counts it, keeps the no-data marker in its place and fails,
\* if at all, only with InvalidPacket or CorruptedPacket.
C21_TimeoutTolerated ==
  (codec_in.line.kind = "timeout" /\ codec_rd.state = "raised") =>
    codec_rd.exc \in {"InvalidPacket", "CorruptedPacket"}

\* C22 as stated: while every read times out, _read_data neither returns nor
\* raises.
C22_ReadsForever ==
  codec_in.line.kind = "silent" => codec_rd.state = "reading"

\* C22 amended: while every read times out, _read_data goes on reading until
\* its twelfth read and raises InvalidPacket there.
C22_SilenceIsInvalidPacket ==
  codec_in.line.kind = "silent" =>
    /\ codec_rd.counter < HeaderBytes => codec_rd.state = "reading"
    /\ codec_rd.counter >= HeaderBytes =>
         /\ codec_rd.counter = HeaderBytes
         /\ codec_rd.state = "raised"
         /\ codec_rd.exc = "InvalidPacket"
         /\ \A i \in DOMAIN codec_rd.received_data :
              codec_rd.received_data[i] = NoData

C22_Witness ==
  /\ codec_in.line.kind = "silent"
  /\ codec_rd.state = "raised"
  /\ codec_rd.exc = "InvalidPacket"
  /\ codec_rd.received_data = [i \in 1..HeaderBytes |-> NoData]

\* C23: the timeout of register() bounds the detection of the verify phase
\* only: in the storage phase a Scan answered no-finger, with no
\* cancellation signalled, always leads to another poll (the loop is not
\* left and the mode stays BUSY), however long ago the loop was entered.
C23_StorageDetectionUnbounded ==
  [][\A t \in Procs :
       (call[t].op = "register" /\ HandlesNoFinger(t) /\ ~kill_read_finger) =>
         /\ call[t].phase = "store" =>
              (call'[t].pc = "scan" /\ status_attr' = BUSY)
         /\ (/\ call[t].phase = "verify"
             /\ Truthy(call[t].timeout)
             /\ GetCurrentTimestamp(clock) - call[t].start_time >= call[t].timeout) =>
              (call'[t].pc = "count_exit" /\ call'[t].pending = "NoFingerFound")]_vars

C23_Witness ==
  \E t \in Procs :
    /\ call[t].op = "register"
    /\ call[t].phase = "store"
    /\ call[t].timeout = 1
    /\ GetCurrentTimestamp(clock) - call[t].start_time >= call[t].timeout
    /\ call[t].pc = "scan"
    /\ LastOf(call[t].log).res = "NoFingerFound"

\* thread t handles in this step a Scan exchange that was not answered
\* no-finger (success or a fault)
HandlesOtherScan(t) ==
  /\ call[t].pc = "scan"
  /\ Len(call'[t].log) = Len(call[t].log) + 1
  /\ LastOf(call'[t].log).res # "NoFingerFound"

\* C24: the flag is cleared only by the step in which a detection loop takes
\* its KillSignal exit; a loop left by success or by a fault leaves the flag
\* as it is; and a flag that is set cancels whichever loop next handles a
\* no-finger response, at that response.
C24_StaleFlagCancelsNextLoop ==
  [][/\ (kill_read_finger /\ ~kill_read_finger') =>
          \E t \in Procs :
            HandlesNoFinger(t) /\ call'[t].pending = "KillSignal"
     /\ \A t \in Procs :
          /\ HandlesOtherScan(t) =>
               (kill_read_finger' = kill_read_finger /\ call'[t].pc # "scan")
          /\ (HandlesNoFinger(t) /\ kill_read_finger) =>
               (/\ call'[t].pc = "count_exit"
                /\ call'[t].pending = "KillSignal"
                /\ ~kill_read_finger')]_vars

C24_Witness ==
  \E t \in Procs :
    /\ call[t].op = "register"
    /\ call[t].phase = "store"
    /\ call[t].pc = "count_exit"
    /\ call[t].pending = "KillSignal"
    /\ call[t].log[1].res = "ok"
    /\ NoFingerScans(call[t].log) = 1
    /\ ~kill_read_finger

AfterLoopPcs ==
  {"count_exit", "buffer", "search", "create", "get_available_position", "store"}

\* C26: the mode is BUSY only while a detection loop is running: when no
\* thread is inside a loop the mode is FREE, in particular during the
\* buffer-image, search, create-template, count-templates and
\* store-template exchanges of a register() or check_finger(), and a
\* register() called during them passes the busy check.
C26_FreeOutsideLoop ==
  [][/\ GStatus' = BUSY => \E t \in Procs : call'[t].pc = "scan"
     /\ \A t, u \in Procs :
          (/\ t # u
           /\ call[t].pc \in AfterLoopPcs
           /\ \A v \in Procs : call[v].pc # "scan"
           /\ call[u].pc = "idle"
           /\ call'[u].op = "register") =>
            (call'[u].pc = "enter" /\ call'[u].outcome # "SensorIsBusy")]_vars

C26_Witness ==
  \E t, u \in Procs :
    /\ t # u
    /\ call[t].op = "register"
    /\ call[t].pc \in {"create", "store"}
    /\ call[u].op = "register"
    /\ call[u].pc = "enter"
    /\ call[u].log = <<>>
    /\ GStatus = FREE

\* C27: the 'status' entry that Global.get('status') and Global.all() return
\* is the mode last written by set_status, the one register() tests.
C27_HolderConsistent ==
  status_attr # "unset" => GlobalGet(data_status) = status_attr

=============================================================================
